---- MODULE Spec2Model ----
(***************************************************************************)
(* Model of app.py, the "Badge 8h" time clock: the stamps table, the       *)
(* add / manual-entry / delete handlers, the per-day and per-month queries *)
(* and the interval accounting (pairwise_intervals, worked_duration_today, *)
(* eta_after_third_stamp, fmt_td, monthly_summary).                        *)
(*                                                                         *)
(* Time.  An instant is an integer number of ticks (1/TicksPerSec second)  *)
(* since 2024-01-01T00:00:00+01:00.  A local datetime is a record          *)
(* [wall, fold]: wall-clock ticks since 2024-01-01T00:00:00 local, and the *)
(* PEP 495 fold bit.  A stored ts_local (an ISO string with offset and no  *)
(* fraction) is the pair <<wall seconds, utc offset in hours>>; a day key  *)
(* (ISO date) is the triple <<year, month, day>>.  ISO strings of one      *)
(* layout compare as text the way these tuples compare lexicographically.  *)
(*                                                                         *)
(* The columns ts_utc and note are written and never read by the code      *)
(* modelled here; rows carry id, day, ts_local and source.  One action is  *)
(* one execution of a handler; the clock moves by Tick and, inside the     *)
(* manual entry block, between its two reads of now_local().               *)
(***************************************************************************)
EXTENDS Integers, Sequences, FiniteSets

\* ---------------------------------------------------------------- bounds
\* Clock resolution: ticks per second (the program's is microseconds).
TicksPerSec == 2
\* Largest row id the table hands out (AUTOINCREMENT is unbounded).
MaxId == 3
\* Longest timestamp list given directly to the accounting functions.
MaxLen == 4
\* Most rows of a table the monthly summary is taken of.
MaxRows == 6

\* ------------------------------------------------------------- constants
SecPerMin == 60
SecPerHour == 3600
TargetHours == 8
StampCols == 4
Year == 2024

DaySec == 24 * SecPerHour
HourTicks == SecPerHour * TicksPerSec
DAILY_TARGET == TargetHours * HourTicks

\* ---------------------------------------------------------- the calendar
\* Days per month of Year (a leap year).
MonthDays == <<31, 29, 31, 30, 31, 30, 31, 31, 30, 31, 30, 31>>

RECURSIVE DaysBefore(_)
\* Days of Year before the first of month m.
DaysBefore(m) == IF m = 1 THEN 0 ELSE DaysBefore(m - 1) + MonthDays[m - 1]

\* Day index (0 = 1 January) of a date of Year.
DayIndex(m, d) == DaysBefore(m) + d - 1

RECURSIVE DateFrom(_, _)
DateFrom(m, n) ==
    IF n < MonthDays[m] THEN <<Year, m, n + 1>> ELSE DateFrom(m + 1, n - MonthDays[m])

\* datetime.date() of a local datetime, as its ISO text <<y, m, d>>.
DateOf(dt) == DateFrom(1, (dt.wall \div TicksPerSec) \div DaySec)

\* Text order of two ISO dates.
DayLess(a, b) ==
    \/ a[1] < b[1]
    \/ a[1] = b[1] /\ a[2] < b[2]
    \/ a[1] = b[1] /\ a[2] = b[2] /\ a[3] < b[3]

\* ------------------------------------------------- Europe/Zurich in 2024
\* Wall seconds of 31 March 02:00 and 03:00 (the skipped hour) and of
\* 27 October 02:00 and 03:00 (the repeated hour).
GapStart == (DayIndex(3, 31) * 24 + 2) * SecPerHour
GapEnd == GapStart + SecPerHour
AmbStart == (DayIndex(10, 27) * 24 + 2) * SecPerHour
AmbEnd == AmbStart + SecPerHour

\* Summer time holds from 2024-03-31T01:00Z until 2024-10-27T01:00Z.
InDst(u) == GapStart * TicksPerSec <= u /\ u < AmbStart * TicksPerSec

\* utcoffset() in hours of a local datetime (PEP 495: in the skipped hour
\* fold=0 gives the offset before the change, in the repeated hour fold=0
\* is the first pass).
UtcOffset(dt) ==
    LET w == dt.wall \div TicksPerSec
    IN IF dt.fold = 0
       THEN (IF GapEnd <= w /\ w < AmbEnd THEN 2 ELSE 1)
       ELSE (IF GapStart <= w /\ w < AmbStart THEN 2 ELSE 1)

\* datetime.now(TZ) at instant u.
now_local(u) ==
    [wall |-> IF InDst(u) THEN u + HourTicks ELSE u,
     fold |-> IF AmbStart * TicksPerSec <= u /\ u < AmbEnd * TicksPerSec THEN 1 ELSE 0]

\* The instant a local datetime denotes (astimezone(UTC)).
InstantOf(dt) == dt.wall - (UtcOffset(dt) - 1) * HourTicks

\* dt.replace(microsecond=0).isoformat()
iso_local(dt) == <<dt.wall \div TicksPerSec, UtcOffset(dt)>>

\* pd.to_datetime of a stored ts_local: the instant the string denotes.
to_datetime(ts) == (ts[1] - (ts[2] - 1) * SecPerHour) * TicksPerSec

\* Text order of two stored ts_local strings.
TsLess(a, b) == a[1] < b[1] \/ (a[1] = b[1] /\ a[2] < b[2])

\* strftime("%H:%M:%S") of a parsed timestamp with its own fixed offset.
strftime(ts) ==
    LET s == ts[1] % DaySec
    IN <<s \div SecPerHour, (s % SecPerHour) \div SecPerMin, s % SecPerMin>>

\* ------------------------------------------------------------ time math
RECURSIVE PairsFrom(_, _, _)
\* The loop of pairwise_intervals from (1-based) index i on.
PairsFrom(timestamps, i, nowv) ==
    IF i > Len(timestamps) THEN <<>>
    ELSE LET start == timestamps[i]
             end == IF i + 1 <= Len(timestamps) THEN timestamps[i + 1] ELSE nowv
         IN (IF end > start THEN << <<start, end>> >> ELSE <<>>)
                \o PairsFrom(timestamps, i + 2, nowv)

RECURSIVE PairsKeepEqual(_, _, _)
\* Variant: the test is end >= start.
PairsKeepEqual(timestamps, i, nowv) ==
    IF i > Len(timestamps) THEN <<>>
    ELSE LET start == timestamps[i]
             end == IF i + 1 <= Len(timestamps) THEN timestamps[i + 1] ELSE nowv
         IN (IF end >= start THEN << <<start, end>> >> ELSE <<>>)
                \o PairsKeepEqual(timestamps, i + 2, nowv)

pairwise_intervals_keep_equal(timestamps, nowv) == PairsKeepEqual(timestamps, 1, nowv)

RECURSIVE PairsKeepUnequal(_, _, _)
\* Variant: the test is end != start.
PairsKeepUnequal(timestamps, i, nowv) ==
    IF i > Len(timestamps) THEN <<>>
    ELSE LET start == timestamps[i]
             end == IF i + 1 <= Len(timestamps) THEN timestamps[i + 1] ELSE nowv
         IN (IF end # start THEN << <<start, end>> >> ELSE <<>>)
                \o PairsKeepUnequal(timestamps, i + 2, nowv)

pairwise_intervals_keep_unequal(timestamps, nowv) == PairsKeepUnequal(timestamps, 1, nowv)

RECURSIVE PairsClosedOnly(_, _, _)
\* Variant: the loop is range(0, n - 1, 2), so an unpaired last stamp is skipped.
PairsClosedOnly(timestamps, i, nowv) ==
    IF i + 1 > Len(timestamps) THEN <<>>
    ELSE LET start == timestamps[i]
             end == timestamps[i + 1]
         IN (IF end > start THEN << <<start, end>> >> ELSE <<>>)
                \o PairsClosedOnly(timestamps, i + 2, nowv)

pairwise_intervals_closed_only(timestamps, nowv) == PairsClosedOnly(timestamps, 1, nowv)

\* pairwise_intervals(timestamps), with the instant now_local() returns.
pairwise_intervals(timestamps, nowv) == PairsFrom(timestamps, 1, nowv)

RECURSIVE SumDurations(_)
SumDurations(intervals) ==
    IF intervals = <<>> THEN 0
    ELSE (Head(intervals)[2] - Head(intervals)[1]) + SumDurations(Tail(intervals))

RECURSIVE SumFlipped(_)
SumFlipped(intervals) ==
    IF intervals = <<>> THEN 0
    ELSE (Head(intervals)[1] - Head(intervals)[2]) + SumFlipped(Tail(intervals))

\* Variant: the sum is of start - end.
worked_duration_flipped(stamps, nowv) == SumFlipped(pairwise_intervals(stamps, nowv))

worked_duration_today(stamps, nowv) == SumDurations(pairwise_intervals(stamps, nowv))

\* Optional values: None is the empty tuple, a value x is <<x>>.
None == <<>>

Max(a, b) == IF a >= b THEN a ELSE b

\* Variant: morning is t2 - t1, not clamped at zero.
eta_unclamped(stamps) ==
    IF Len(stamps) < 3 THEN None
    ELSE LET remaining == DAILY_TARGET - (stamps[2] - stamps[1])
         IN IF remaining <= 0 THEN <<stamps[3]>> ELSE <<stamps[3] + remaining>>

eta_after_third_stamp(stamps) ==
    IF Len(stamps) < 3 THEN None
    ELSE LET t1 == stamps[1]
             t2 == stamps[2]
             t3 == stamps[3]
             morning == Max(0, t2 - t1)
             remaining == DAILY_TARGET - morning
         IN IF remaining <= 0 THEN <<t3>> ELSE <<t3 + remaining>>

Abs(x) == IF x < 0 THEN -x ELSE x

\* fmt_td: <<sign, hours, minutes>>; int() truncates towards zero.
fmt_td(td) ==
    LET total_seconds == Abs(td) \div TicksPerSec
        sign == IF td < 0 /\ total_seconds > 0 THEN "-" ELSE ""
    IN <<sign, total_seconds \div SecPerHour, (total_seconds % SecPerHour) \div SecPerMin>>

\* ---------------------------------------------------------------- state
VARIABLES
    now,          \* the clock: the current instant
    stamps,       \* the stamps table: a set of rows [id, day, ts_local, source]
    nextId,       \* the next AUTOINCREMENT id
    times_today,  \* the list of timestamps handed to the accounting functions
    msg           \* the message the manual entry block shows: "", "error", "success"

vars == <<now, stamps, nextId, times_today, msg>>

\* Local instant of month m, day d, h:mi:s plus frac ticks, at utc offset off.
At(m, d, h, mi, s, frac, off) ==
    (((DayIndex(m, d) * 24 + h - (off - 1)) * SecPerHour) + mi * SecPerMin + s)
        * TicksPerSec + frac

\* The instants the clock is observed at.
Instants ==
    { At(3, 30, 8, 0, 0, 0, 1), At(3, 30, 23, 59, 59, 1, 1),
      At(3, 31, 0, 0, 0, 0, 1), At(3, 31, 3, 10, 0, 0, 2), At(4, 1, 9, 0, 0, 0, 2),
      At(10, 27, 2, 50, 0, 0, 2), At(10, 27, 2, 10, 0, 0, 1) }

FirstInstant == CHOOSE u \in Instants : \A v \in Instants : u <= v

\* What is typed into the manual HH:MM field, as the two integers parsed.
ManualInputs == { <<2, 50>>, <<23, 0>>, <<25, 0>> }

\* The months asked of the export.
Months == { 3, 4, 10, 12 }

\* Timestamps given directly to the accounting functions.
PureTimes ==
    { At(3, 30, 8, 0, 0, 0, 1), At(3, 30, 12, 0, 0, 0, 1), At(3, 30, 13, 0, 0, 0, 1),
      At(3, 30, 16, 30, 0, 0, 1), At(3, 30, 17, 0, 0, 0, 1) }

Lists == UNION { [1..n -> PureTimes] : n \in 0..MaxLen }

NonDecreasing(ts) == \A i \in 1..(Len(ts) - 1) : ts[i] <= ts[i + 1]

\* -------------------------------------------------------------- storage
\* ORDER BY day, ts_local (rows that tie come in rowid order).
RowLess(a, b) ==
    \/ DayLess(a.day, b.day)
    \/ a.day = b.day /\ TsLess(a.ts_local, b.ts_local)
    \/ a.day = b.day /\ a.ts_local = b.ts_local /\ a.id < b.id

RECURSIVE OrderBy(_)
OrderBy(rows) ==
    IF rows = {} THEN <<>>
    ELSE LET first == CHOOSE r \in rows : \A q \in rows : q = r \/ RowLess(r, q)
         IN <<first>> \o OrderBy(rows \ {first})

\* SELECT ... WHERE day=? ORDER BY ts_local ASC, on the rows of table.
SelectDay(table, day_iso) == OrderBy({ r \in table : r.day = day_iso })

get_stamps_for_day(day_iso) == SelectDay(stamps, day_iso)

\* list(df["ts_local"]) after pd.to_datetime
TimesOf(df) == [i \in 1..Len(df) |-> to_datetime(df[i].ts_local)]

today_iso == DateOf(now_local(now))

\* INSERT INTO stamps(day, ts_utc, ts_local, source, note)
Insert(day, ts, source) ==
    /\ nextId <= MaxId
    /\ stamps' = stamps \cup { [id |-> nextId, day |-> day, ts_local |-> ts, source |-> source] }
    /\ nextId' = nextId + 1

add_stamp ==
    LET t_local == now_local(now)
        day == DateOf(t_local)
    IN /\ Insert(day, iso_local(t_local), "btn")
       /\ msg' = ""
       /\ UNCHANGED <<now, times_today>>

\* The row ORDER BY ts_local DESC LIMIT 1 may return: one no other row of the
\* day follows in text order.
LastRows(day_iso) ==
    { r \in stamps : r.day = day_iso
        /\ \A q \in stamps : q.day = day_iso => ~TsLess(r.ts_local, q.ts_local) }

delete_last_stamp(day_iso) ==
    /\ IF LastRows(day_iso) = {}
       THEN stamps' = stamps
       ELSE \E row \in LastRows(day_iso) : stamps' = stamps \ {row}
    /\ msg' = ""
    /\ UNCHANGED <<now, nextId, times_today>>

DeleteClick == delete_last_stamp(today_iso)

\* now.replace(hour=hh, minute=mm, second=0, microsecond=0)
Replace(dt, hh, mm) ==
    [wall |-> (((dt.wall \div TicksPerSec) \div DaySec) * DaySec
                 + hh * SecPerHour + mm * SecPerMin) * TicksPerSec,
     fold |-> dt.fold]

\* The instants a second clock read of one handler run may return.
SecondRead == { u \in Instants : now <= u /\ u - now <= TicksPerSec }

\* The manual entry block, with the two integers of the text typed.
ManualEntry(hh, mm) ==
    IF hh \notin 0..23 \/ mm \notin 0..59
    THEN \* replace() raises ValueError, which the block swallows
         /\ msg' = ""
         /\ UNCHANGED <<now, stamps, nextId, times_today>>
    ELSE LET t == Replace(now_local(now), hh, mm)
         IN \E now2 \in SecondRead :
            /\ now' = now2
            /\ IF t.wall > now_local(now2).wall
               THEN /\ msg' = "error"
                    /\ UNCHANGED <<stamps, nextId>>
               ELSE /\ Insert(DateOf(t), iso_local(t), "manual")
                    /\ msg' = "success"
            /\ UNCHANGED times_today

\* The today panel: df_today and times_today.
TodayPanel ==
    /\ times_today' = TimesOf(get_stamps_for_day(today_iso))
    /\ msg' = ""
    /\ UNCHANGED <<now, stamps, nextId>>

Tick ==
    /\ \E u \in Instants : u > now /\ now' = u
    /\ UNCHANGED <<stamps, nextId, times_today, msg>>

\* ------------------------------------------------------ monthly summary
\* (start.replace(day=28) + timedelta(days=4)).replace(day=1): the first of
\* the next month, as ISO text.
NextMonth(year, month) ==
    IF month = 12 THEN <<year + 1, 1, 1>> ELSE <<year, month + 1, 1>>

\* SELECT day, ts_local ... WHERE day >= ? AND day < ? ORDER BY day, ts_local
\* Variant: the range test is day <= end.
MonthRowsInclusive(year, month) ==
    OrderBy({ r \in stamps : /\ ~DayLess(r.day, <<year, month, 1>>)
                             /\ ~DayLess(NextMonth(year, month), r.day) })

MonthRows(year, month) ==
    OrderBy({ r \in stamps : /\ ~DayLess(r.day, <<year, month, 1>>)
                             /\ DayLess(r.day, NextMonth(year, month)) })

\* The keys of df.groupby("day"), in order.
RECURSIVE GroupKeys(_)
GroupKeys(df) ==
    IF df = <<>> THEN <<>>
    ELSE LET d == Head(df).day
         IN <<d>> \o GroupKeys(SelectSeq(Tail(df), LAMBDA r : r.day # d))

\* One out_rows entry: the group grp of day d.
SummaryRow(d, grp, nowv) ==
    LET times == TimesOf(grp)
        worked == worked_duration_today(times, nowv)
        delta == worked - DAILY_TARGET
    IN [Day |-> d,
        Stamp |-> [i \in 1..StampCols |->
                     IF i <= Len(grp) THEN strftime(grp[i].ts_local) ELSE <<>>],
        Worked |-> fmt_td(worked),
        Delta_vs_8h |-> fmt_td(delta)]

monthly_summary(year, month) ==
    LET df == MonthRows(year, month)
        keys == GroupKeys(df)
    IN [k \in 1..Len(keys) |->
          SummaryRow(keys[k], SelectSeq(df, LAMBDA r : r.day = keys[k]), now)]

\* The export button: the summary of one month is computed.
Export(month) ==
    /\ Len(monthly_summary(Year, month)) >= 0
    /\ msg' = ""
    /\ UNCHANGED <<now, stamps, nextId, times_today>>

\* ------------------------------------------------------- specifications
Init ==
    /\ now = FirstInstant
    /\ stamps = {}
    /\ nextId = 1
    /\ times_today = <<>>
    /\ msg = ""

Next ==
    \/ add_stamp
    \/ \E hm \in ManualInputs : ManualEntry(hm[1], hm[2])
    \/ DeleteClick
    \/ TodayPanel
    \/ \E month \in Months : Export(month)
    \/ Tick

Spec == Init /\ [][Next]_vars

\* The accounting functions applied to any list, at any instant.
InitPure ==
    /\ now \in Instants
    /\ stamps = {}
    /\ nextId = 1
    /\ times_today \in Lists
    /\ msg = ""

NextPure == Tick

SpecPure == InitPure /\ [][NextPure]_vars

\* The table after add_stamp was pressed at each instant of q in turn.
TableOf(q) ==
    { [id |-> i, day |-> DateOf(now_local(q[i])), ts_local |-> iso_local(now_local(q[i])),
       source |-> "btn"] : i \in 1..Len(q) }

\* The monthly summary over tables of up to MaxRows rows.
InitMonth ==
    /\ \E n \in 0..MaxRows : \E q \in [1..n -> Instants] :
          /\ NonDecreasing(q)
          /\ stamps = TableOf(q)
          /\ nextId = n + 1
          /\ now \in Instants
          /\ \A i \in 1..n : q[i] <= now
    /\ times_today = <<>>
    /\ msg = ""

NextMonthly ==
    \/ \E month \in Months : Export(month)
    \/ Tick

SpecMonth == InitMonth /\ [][NextMonthly]_vars

TypeOK ==
    /\ now \in Instants
    /\ nextId \in 1..(MaxId + 1)
    /\ \A r \in stamps : r.id \in 1..MaxId /\ r.source \in {"btn", "manual"}
    /\ Cardinality(stamps) <= MaxId

\* ------------------------------------------------- the pairing, stated
\* The pairs the pairing rule forms at instant nowv: (t[0],t[1]), (t[2],t[3]),
\* ... and, for an odd count, (t[n-1], nowv).
CandidatePairs(ts, nowv) ==
    [k \in 1..((Len(ts) + 1) \div 2) |->
        <<ts[2 * k - 1], IF 2 * k <= Len(ts) THEN ts[2 * k] ELSE nowv>>]

RECURSIVE SumOver(_, _)
\* The sum of f[k] over the indices of the sequence or function f up to n.
SumOver(f, n) == IF n = 0 THEN 0 ELSE f[n] + SumOver(f, n - 1)

\* The sum of end - start over the candidate pairs.
SumOfDifferences(ts, nowv) ==
    LET p == CandidatePairs(ts, nowv)
    IN SumOver([k \in 1..Len(p) |-> p[k][2] - p[k][1]], Len(p))

\* The same sum with every pair that does not end after its start counted zero.
SumOfPositive(ts, nowv) ==
    LET p == CandidatePairs(ts, nowv)
    IN SumOver([k \in 1..Len(p) |-> Max(0, p[k][2] - p[k][1])], Len(p))

Strict(p) == p[2] > p[1]

\* --------------------------------------------------------------- claims
\* C1 as stated: for an even-length non-decreasing list (equal neighbours
\* allowed) pairwise_intervals returns exactly the n/2 pairs (t[0],t[1]),
\* (t[2],t[3]), ..., and worked_duration_today is the sum of t[2k+1] - t[2k],
\* whatever the clock reads.
C1_AsStated ==
    (Len(times_today) % 2 = 0 /\ NonDecreasing(times_today)) =>
        /\ pairwise_intervals(times_today, now) = CandidatePairs(times_today, now)
        /\ Len(pairwise_intervals(times_today, now)) = Len(times_today) \div 2
        /\ \A u \in Instants :
             worked_duration_today(times_today, u) = SumOfDifferences(times_today, now)

\* C1 amended: for an even-length non-decreasing list pairwise_intervals
\* returns, in order, exactly the pairs (t[2k],t[2k+1]) with t[2k] < t[2k+1]
\* (all n/2 of them when no pair has equal ends; a pair of equal timestamps is
\* left out), and worked_duration_today is the sum of t[2k+1] - t[2k] over all
\* k, whatever the clock reads.
C1_Amended ==
    (Len(times_today) % 2 = 0 /\ NonDecreasing(times_today)) =>
        /\ pairwise_intervals(times_today, now)
             = SelectSeq(CandidatePairs(times_today, now), Strict)
        /\ ((\A k \in 1..(Len(times_today) \div 2) :
                times_today[2 * k - 1] < times_today[2 * k])
              => Len(pairwise_intervals(times_today, now)) = Len(times_today) \div 2)
        /\ \A u \in Instants :
             worked_duration_today(times_today, u) = SumOfDifferences(times_today, now)

\* Four sorted stamps, the first two equal and the last two apart: one
\* interval is returned.
C1_Witness ==
    /\ Len(times_today) = 4
    /\ NonDecreasing(times_today)
    /\ times_today[1] = times_today[2]
    /\ times_today[3] < times_today[4]
    /\ Len(pairwise_intervals(times_today, now)) = 1

\* C3 as stated: for an odd-length list whose last timestamp is not after the
\* evaluation instant, the trailing interval is (t[n-1], now), and evaluating
\* at a strictly later instant gives a strictly larger total.
C3_AsStated ==
    (Len(times_today) % 2 = 1 /\ times_today[Len(times_today)] <= now) =>
        LET iv == pairwise_intervals(times_today, now)
        IN /\ iv # <<>>
           /\ iv[Len(iv)] = <<times_today[Len(times_today)], now>>
           /\ \A u \in Instants : u > now =>
                worked_duration_today(times_today, u)
                    > worked_duration_today(times_today, now)

\* C3 amended: for an odd-length list whose last timestamp is strictly before
\* the evaluation instant the trailing interval is (t[n-1], now); when the
\* last timestamp equals the evaluation instant no trailing interval is
\* returned and the open stamp adds nothing; in both cases evaluating at a
\* strictly later instant gives a strictly larger total, and the total is the
\* closed pairs' total plus now - t[n-1].
C3_Amended ==
    (Len(times_today) % 2 = 1 /\ times_today[Len(times_today)] <= now) =>
        LET n == Len(times_today)
            iv == pairwise_intervals(times_today, now)
            closed == pairwise_intervals(SubSeq(times_today, 1, n - 1), now)
        IN /\ times_today[n] < now => iv = closed \o << <<times_today[n], now>> >>
           /\ times_today[n] = now => iv = closed
           /\ worked_duration_today(times_today, now)
                = SumDurations(closed) + (now - times_today[n])
           /\ \A u \in Instants : u > now =>
                worked_duration_today(times_today, u)
                    > worked_duration_today(times_today, now)

\* Three stamps, the last one open and before the clock, and a later instant
\* to evaluate at again.
C3_Witness ==
    /\ Len(times_today) = 3
    /\ times_today[1] < times_today[2]
    /\ times_today[3] < now
    /\ \E u \in Instants : u > now
    /\ Len(pairwise_intervals(times_today, now)) = 2

\* C4: eta_after_third_stamp gives no projection exactly when there are fewer
\* than three stamps; otherwise, with morning = max(0, t[1]-t[0]) and
\* remaining = 8h - morning, it gives t[2] when remaining <= 0 and
\* t[2] + remaining otherwise: never before t[2], never after t[2] + 8h, and
\* the same whatever follows the third stamp.
C4_Eta ==
    LET ts == times_today
        eta == eta_after_third_stamp(ts)
    IN /\ eta = None <=> Len(ts) < 3
       /\ Len(ts) >= 3 =>
            /\ Len(eta) = 1
            /\ ts[3] <= eta[1] /\ eta[1] <= ts[3] + TargetHours * HourTicks
            /\ ts[2] - ts[1] >= TargetHours * HourTicks => eta[1] = ts[3]
            /\ ts[2] <= ts[1] => eta[1] = ts[3] + TargetHours * HourTicks
            /\ (ts[1] < ts[2] /\ ts[2] - ts[1] < TargetHours * HourTicks)
                 => eta[1] = ts[3] + TargetHours * HourTicks - (ts[2] - ts[1])
            /\ eta = eta_after_third_stamp(SubSeq(ts, 1, 3))
       /\ ts = <<At(3, 30, 8, 0, 0, 0, 1), At(3, 30, 12, 0, 0, 0, 1), At(3, 30, 13, 0, 0, 0, 1)>>
            => eta = <<At(3, 30, 17, 0, 0, 0, 1)>>
       /\ ts = <<At(3, 30, 8, 0, 0, 0, 1), At(3, 30, 16, 30, 0, 0, 1), At(3, 30, 17, 0, 0, 0, 1)>>
            => eta = <<At(3, 30, 17, 0, 0, 0, 1)>>
       /\ ts = <<At(3, 30, 8, 0, 0, 0, 1), At(3, 30, 12, 0, 0, 0, 1)>> => eta = None

\* 08:00, 12:00, 13:00 and a fourth stamp: the projection is 17:00.
C4_Witness ==
    /\ Len(times_today) = 4
    /\ SubSeq(times_today, 1, 3)
         = <<At(3, 30, 8, 0, 0, 0, 1), At(3, 30, 12, 0, 0, 0, 1), At(3, 30, 13, 0, 0, 0, 1)>>
    /\ eta_after_third_stamp(times_today) = <<At(3, 30, 17, 0, 0, 0, 1)>>

\* C7: for every list (sorted or not, empty or not) and every clock value
\* each interval pairwise_intervals returns ends strictly after it starts, a
\* pair that does not is dropped and counts zero, so worked_duration_today is
\* never negative; the empty list gives zero, no intervals and no projection.
C7_NonNegative ==
    LET iv == pairwise_intervals(times_today, now)
    IN /\ \A i \in 1..Len(iv) : iv[i][2] > iv[i][1]
       /\ iv = SelectSeq(CandidatePairs(times_today, now), Strict)
       /\ worked_duration_today(times_today, now) = SumOfPositive(times_today, now)
       /\ worked_duration_today(times_today, now) >= 0
       /\ times_today = <<>> =>
            /\ iv = <<>>
            /\ worked_duration_today(times_today, now) = 0
            /\ eta_after_third_stamp(times_today) = None

\* An unsorted list: the first pair runs backwards and is dropped, the second
\* is kept.
C7_Witness ==
    /\ Len(times_today) = 4
    /\ times_today[1] > times_today[2]
    /\ times_today[3] < times_today[4]
    /\ Len(pairwise_intervals(times_today, now)) = 1
    /\ worked_duration_today(times_today, now) = times_today[4] - times_today[3]

\* The row a step inserted (the table hands out nextId).
NewRow == CHOOSE r \in stamps' : r.id = nextId

\* C2 as stated: a new event (add_stamp or manual entry) whose timestamp is
\* not earlier than any of the day's and not later than the current instant
\* never makes the day's worked duration, taken at the same instant, smaller.
C2_AsStated ==
    [][nextId' = nextId + 1 =>
         LET t == to_datetime(NewRow.ts_local)
             before == TimesOf(SelectDay(stamps, NewRow.day))
             after == TimesOf(SelectDay(stamps', NewRow.day))
         IN ((\A i \in 1..Len(before) : before[i] <= t) /\ t <= now')
              => worked_duration_today(after, now') >= worked_duration_today(before, now')
      ]_vars

\* C2 amended: when the day's stored sequence has even length and the new
\* event is listed after all of them, the worked duration taken at the same
\* instant is never smaller after the insert than before; when the sequence
\* has odd length and the new event, not earlier than the open stamp and not
\* later than the current instant, is listed last, the insert closes the open
\* interval and the worked duration becomes smaller by now - t_new (equal only
\* when t_new is the current instant).
C2_Amended ==
    [][nextId' = nextId + 1 =>
         LET t == to_datetime(NewRow.ts_local)
             before == TimesOf(SelectDay(stamps, NewRow.day))
             after == TimesOf(SelectDay(stamps', NewRow.day))
             n == Len(before)
         IN after = Append(before, t) =>
              /\ n % 2 = 0 =>
                   worked_duration_today(after, now') >= worked_duration_today(before, now')
              /\ (n % 2 = 1 /\ before[n] <= t /\ t <= now') =>
                   worked_duration_today(after, now')
                       = worked_duration_today(before, now') - (now' - t)
      ]_vars

\* A day of three stamps, the newest row listed last and stamped before the
\* clock: the third stamp was appended to an even-length day.
C2_Witness ==
    \E r \in stamps :
       LET df == get_stamps_for_day(r.day)
       IN /\ Len(df) = 3
          /\ df[3].id = nextId - 1
          /\ to_datetime(df[3].ts_local) < now
          /\ worked_duration_today(TimesOf(df), now)
               > worked_duration_today(SubSeq(TimesOf(df), 1, 2), now)

\* C5 (the claim): a manual entry whose timestamp is later than the current
\* instant is rejected with an error and the table is left as it was; any
\* other valid entry inserts exactly one row, with source 'manual'.
C5_Claim ==
    [][\A hm \in ManualInputs :
         (hm[1] \in 0..23 /\ hm[2] \in 0..59 /\ ManualEntry(hm[1], hm[2])) =>
            LET t == Replace(now_local(now), hm[1], hm[2])
            IN IF InstantOf(t) > now'
               THEN stamps' = stamps /\ msg' = "error"
               ELSE \E r \in stamps' \ stamps :
                      /\ stamps' = stamps \cup {r}
                      /\ r.source = "manual"
                      /\ r.ts_local = iso_local(t)
      ]_vars

\* C6 (the claim): delete_last_stamp on a day with events removes exactly one
\* row, one whose timestamp is the latest of the day; on a day without events
\* it changes nothing; every other row stays.
C6_Claim ==
    [][DeleteClick =>
         LET rows == { r \in stamps : r.day = today_iso }
         IN IF rows = {}
            THEN stamps' = stamps
            ELSE \E r \in rows :
                   /\ stamps' = stamps \ {r}
                   /\ \A q \in rows : to_datetime(q.ts_local) <= to_datetime(r.ts_local)
      ]_vars

\* C8 (the claim): the list of a day's timestamps handed to the accounting
\* functions (by get_stamps_for_day, by the today panel and by each group of
\* monthly_summary) is in non-decreasing order.
C8_Claim ==
    /\ NonDecreasing(times_today)
    /\ \A r \in stamps :
         /\ NonDecreasing(TimesOf(get_stamps_for_day(r.day)))
         /\ NonDecreasing(TimesOf(SelectSeq(MonthRows(r.day[1], r.day[2]),
                                            LAMBDA q : q.day = r.day)))

\* C10 (the claim): every stored event has a timestamp not later than the
\* current instant and is filed under the calendar date of its timestamp, so
\* the open stamp of an odd-length day is never after the clock.
C10_Claim ==
    /\ \A r \in stamps :
         /\ to_datetime(r.ts_local) <= now
         /\ r.day = DateFrom(1, r.ts_local[1] \div DaySec)
    /\ \A r \in stamps :
         LET ts == TimesOf(get_stamps_for_day(r.day))
         IN Len(ts) % 2 = 1 => ts[Len(ts)] <= now

====
